---- MODULE Spec2Model ----
(***************************************************************************)
(* Model of the two source crawlers of the Job-Scraper repository:         *)
(*   scrape_all_jobs    (src/scraper/Timejobs_scraper.py, TimesJobs)       *)
(*   scrape_talent_com  (src/scraper/Talent_scraper.py,  Talent.com)       *)
(* One behaviour is one call of one of the two functions.  The web site    *)
(* and the browser are the environment: every page load either raises or   *)
(* yields some page of a finite set of representative pages.  Texts are    *)
(* TLA+ strings; strip, lower, startswith, "in", isdigit and int are       *)
(* computed character by character.                                        *)
(***************************************************************************)
EXTENDS Integers, Sequences, FiniteSets, TLC

(* ------------------------------ bounds -------------------------------- *)

\* Largest page number a pagination button of a modelled result page shows.
MaxSitePages == 3

\* Largest value of the max_pages argument a call is given.
MaxCap == 4

\* The largest max_pages of a call of scrape_all_jobs that has an
\* experience filter.
MaxFilteredCap == 2

(* ------------------------- Python string methods ---------------------- *)

UpperChars == "ABCDEFGHIJKLMNOPQRSTUVWXYZ"
LowerChars == "abcdefghijklmnopqrstuvwxyz"
DigitChars == "0123456789"

\* The one-character strings of an alphabet.
CharsOf(alphabet) == {SubSeq(alphabet, i, i) : i \in 1..Len(alphabet)}

\* Position of the one-character string c in alphabet.
IndexIn(c, alphabet) == CHOOSE i \in 1..Len(alphabet) : SubSeq(alphabet, i, i) = c

UpperToLower ==
    [c \in CharsOf(UpperChars) |->
        SubSeq(LowerChars, IndexIn(c, UpperChars), IndexIn(c, UpperChars))]

DigitValue == [c \in CharsOf(DigitChars) |-> IndexIn(c, DigitChars) - 1]

LowerChar(c) == IF c \in DOMAIN UpperToLower THEN UpperToLower[c] ELSE c

RECURSIVE Lower(_)
\* str.lower(), one half of the string after the other
Lower(s) ==
    IF Len(s) = 0 THEN ""
    ELSE IF Len(s) = 1 THEN LowerChar(s)
    ELSE Lower(SubSeq(s, 1, Len(s) \div 2)) \o Lower(SubSeq(s, (Len(s) \div 2) + 1, Len(s)))

\* sub in s
Contains(s, sub) ==
    \E i \in 1..(Len(s) - Len(sub) + 1) : SubSeq(s, i, i + Len(sub) - 1) = sub

\* s.startswith(prefix)
StartsWith(s, prefix) ==
    Len(s) >= Len(prefix) /\ SubSeq(s, 1, Len(prefix)) = prefix

\* Positions of s that hold no blank.
NonBlank(s) == {i \in 1..Len(s) : SubSeq(s, i, i) # " "}

SetMin(S) == CHOOSE m \in S : \A n \in S : m <= n
SetMax(S) == CHOOSE m \in S : \A n \in S : m >= n

\* str.strip()
Strip(s) ==
    IF NonBlank(s) = {} THEN "" ELSE SubSeq(s, SetMin(NonBlank(s)), SetMax(NonBlank(s)))

\* str.isdigit()
IsDigit(s) ==
    Len(s) > 0 /\ \A i \in 1..Len(s) : SubSeq(s, i, i) \in DOMAIN DigitValue

RECURSIVE ParseInt(_)
\* int(s) for a string of decimal digits
ParseInt(s) ==
    IF Len(s) = 0 THEN 0
    ELSE 10 * ParseInt(SubSeq(s, 1, Len(s) - 1)) + DigitValue[SubSeq(s, Len(s), Len(s))]

RECURSIVE IntToStr(_)
\* str(n) for n >= 0
IntToStr(n) ==
    IF n < 10 THEN SubSeq(DigitChars, n + 1, n + 1)
    ELSE IntToStr(n \div 10) \o SubSeq(DigitChars, (n % 10) + 1, (n % 10) + 1)

RECURSIVE JoinWith(_, _)
\* sep.join(parts)
JoinWith(parts, sep) ==
    IF Len(parts) = 0 THEN ""
    ELSE IF Len(parts) = 1 THEN parts[1]
    ELSE parts[1] \o sep \o JoinWith(Tail(parts), sep)

\* An optional value is a sequence of length at most one: <<>> is None.
None == <<>>
Some(v) == <<v>>
IsNone(o) == Len(o) = 0

Max(a, b) == IF a >= b THEN a ELSE b


(* -------------------- TimesJobs: result (listing) pages ---------------- *)

\* An <a> element of a result page: href is its href attribute (None when
\* the element has none), div says whether it has an ancestor <div>, and h2
\* is the raw text of the first <h2> of the nearest such div (None when the
\* div holds no <h2>).
Anchor(href, div, h2) == [href |-> href, div |-> div, h2 |-> h2]

\* A result page: free text, the texts of its <button>s and its <a>s, in
\* document order.
ListingPage(body, buttons, links) ==
    [body |-> body, buttons |-> buttons, links |-> links]

TJ_BASE == "https://www.timesjobs.com"

\* The pagination row of a result set of n pages.
PageButtons(n) == [i \in 1..(n + 1) |-> IF i <= n THEN IntToStr(i) ELSE "Next"]

ButtonRows == {<<>>} \cup {PageButtons(n) : n \in 2..MaxSitePages}

\* One card with a title to strip, the same link again under another title,
\* and a card without a title.
LinksA ==
    << Anchor(Some("/job-detail/a"), TRUE, Some("  Python Developer ")),
       Anchor(Some("/job-detail/a"), TRUE, Some("QA Engineer")),
       Anchor(Some("/job-detail/b"), TRUE, None) >>

\* The link of LinksA as an absolute URL under another title, a link that is
\* no job link, and a card whose title is the placeholder.
LinksB ==
    << Anchor(Some("https://www.timesjobs.com/job-detail/a"), TRUE, Some("QA Engineer")),
       Anchor(Some("/about-us"), TRUE, Some("About")),
       Anchor(Some("/job-detail/c"), TRUE, Some("N/A")) >>

\* Two jobs, and between them a card whose title is blank, an <a> without
\* href, one with an empty href and a job link outside any <div>.
LinksC ==
    << Anchor(Some("/job-detail/b"), TRUE, Some("Data Analyst")),
       Anchor(Some("/job-detail/d"), TRUE, Some("   ")),
       Anchor(None, TRUE, Some("Menu")),
       Anchor(Some(""), TRUE, Some("Empty")),
       Anchor(Some("/job-detail/e"), FALSE, None),
       Anchor(Some("https://jobs.example.org/job-detail/g"), TRUE, Some("ML Engineer")) >>

LinkRows == {<<>>, LinksA, LinksB, LinksC}

NoResultBodies == {"No Jobs Matching your search", "Sorry, no results found."}

\* The result pages the site may serve.
ListingPages ==
    {ListingPage("Python jobs in Ahmedabad", b, l) : b \in ButtonRows, l \in LinkRows}
    \cup {ListingPage(t, <<>>, l) : t \in NoResultBodies, l \in {<<>>, LinksA}}
    \cup {ListingPage("Suggested jobs", PageButtons(2),
                      <<Anchor(Some("/job-detail/f"), TRUE, Some("No results found Ltd"))>>)}

\* soup.find_all('a', href=True)
AllLinks(page) == SelectSeq(page.links, LAMBDA a : ~IsNone(a.href))

RECURSIVE HeadingTexts(_)
HeadingTexts(links) ==
    IF Len(links) = 0 THEN ""
    ELSE (IF links[1].div /\ ~IsNone(links[1].h2) THEN links[1].h2[1] ELSE "")
         \o HeadingTexts(Tail(links))

\* soup.get_text(): every text of the page, in document order.
GetText(page) == page.body \o HeadingTexts(page.links) \o JoinWith(page.buttons, "")

RECURSIVE MaxButton(_, _)
MaxButton(buttons, max_page) ==
    IF Len(buttons) = 0 THEN max_page
    ELSE LET text == Strip(buttons[1])
         IN MaxButton(Tail(buttons),
                      IF IsDigit(text) /\ ParseInt(text) > 1
                      THEN Max(max_page, ParseInt(text))
                      ELSE max_page)

get_total_pages(page) == MaxButton(page.buttons, 1)

\* check_for_no_results testing the first phrase of line 135 only.
check_for_no_results_FirstPhrase(page) ==
    LET page_text == Lower(GetText(page))
    IN Contains(page_text, "no jobs matching")

\* check_for_no_results without the .lower() of line 134.
check_for_no_results_CaseSensitive(page) ==
    LET page_text == GetText(page)
    IN Contains(page_text, "no jobs matching") \/ Contains(page_text, "no results found")

check_for_no_results(page) ==
    LET page_text == Lower(GetText(page))
    IN Contains(page_text, "no jobs matching") \/ Contains(page_text, "no results found")

\* Title of one card (lines 171-178).
CardTitle(link) ==
    IF link.div /\ ~IsNone(link.h2) THEN Strip(link.h2[1]) ELSE "N/A"

RECURSIVE ExtractLinks(_, _, _)
\* The loop of extract_jobs_from_page over all_links, seen_urls being seen.
\* The loop of extract_jobs_from_page without the title test of line 181.
ExtractLinks_KeepUntitled(links, seen, base_url) ==
    IF Len(links) = 0 THEN <<>>
    ELSE LET link == links[1]
             href == link.href[1]
             full_url == IF StartsWith(href, "/") THEN base_url \o href ELSE href
             title == CardTitle(link)
         IN IF ~Contains(href, "/job-detail/") THEN ExtractLinks(Tail(links), seen, base_url)
            ELSE IF href \in seen THEN ExtractLinks(Tail(links), seen, base_url)
            ELSE <<[title |-> title, url |-> full_url]>>
                 \o ExtractLinks(Tail(links), seen \cup {href}, base_url)

ExtractLinks(links, seen, base_url) ==
    IF Len(links) = 0 THEN <<>>
    ELSE LET link == links[1]
             href == link.href[1]
             full_url == IF StartsWith(href, "/") THEN base_url \o href ELSE href
             title == CardTitle(link)
         IN IF ~Contains(href, "/job-detail/") THEN ExtractLinks(Tail(links), seen, base_url)
            ELSE IF href \in seen THEN ExtractLinks(Tail(links), seen, base_url)
            ELSE (IF title # "" /\ title # "N/A"
                  THEN <<[title |-> title, url |-> full_url]>>
                  ELSE <<>>)
                 \o ExtractLinks(Tail(links), seen \cup {href}, base_url)

extract_jobs_from_page(page, base_url) == ExtractLinks(AllLinks(page), {}, base_url)

(* ------------------------ TimesJobs: detail pages ---------------------- *)

\* An element with its tag name and its text.
Node(name, text) == [name |-> name, text |-> text]

\* A heading element with the elements that follow it under the same parent.
Heading(name, text, siblings) == [name |-> name, text |-> text, siblings |-> siblings]

\* A job detail page:
\*   h3       text of the first <h3 class="inline mr-2">, None without one
\*   rtd      text of the first <div> whose class holds "rtd-content"
\*   blocks   texts of the div/section/article elements whose class holds
\*            jd-cont, job-desc or job-description
\*   headings the h2..h5 and <heading> elements, in document order
\*   spans    texts of the <span class="mr-2 inline flex items-center">
\*   nodes    get_text(" ") of every li, div, span and p, in document order
DetailPage(h3, rtd, blocks, headings, spans, nodes) ==
    [h3 |-> h3, rtd |-> rtd, blocks |-> blocks, headings |-> headings,
     spans |-> spans, nodes |-> nodes]

MinDescLen == 50

extract_company_from_detail(page) ==
    IF ~IsNone(page.h3) THEN Strip(page.h3[1]) ELSE "N/A"

\* Lines 216-223: the first class-matched block with more than 50 characters.
FirstLongBlock(blocks) ==
    LET long == SelectSeq(blocks, LAMBDA b : Len(Strip(b)) > MinDescLen)
    IN IF Len(long) > 0 THEN Some(Strip(long[1])) ELSE None

\* Lines 227-230: the first h2..h5 whose text holds "description".
DescHeading(page) ==
    LET hs == SelectSeq(page.headings,
                        LAMBDA h : /\ h.name \in {"h2", "h3", "h4", "h5"}
                                   /\ Contains(Lower(Strip(h.text)), "description"))
    IN IF Len(hs) > 0 THEN Some(hs[1]) ELSE None

\* The texts of the siblings without the test of line 236.
SiblingParts_KeepEmpty(siblings) ==
    [i \in 1..Len(siblings) |-> Strip(siblings[i].text)]

\* Lines 233-237: the non-empty texts of the siblings.
SiblingParts(siblings) ==
    LET texts == [i \in 1..Len(siblings) |-> Strip(siblings[i].text)]
    IN SelectSeq(texts, LAMBDA t : t # "")

extract_description_from_detail(page) ==
    IF ~IsNone(page.rtd) /\ Len(Strip(page.rtd[1])) > MinDescLen
    THEN Strip(page.rtd[1])
    ELSE IF ~IsNone(FirstLongBlock(page.blocks)) THEN FirstLongBlock(page.blocks)[1]
    ELSE IF ~IsNone(DescHeading(page))
            /\ Len(SiblingParts(DescHeading(page)[1].siblings)) > 0
    THEN JoinWith(SiblingParts(DescHeading(page)[1].siblings), " ")
    ELSE "N/A"

SkillExcludes ==
    {"year", "experience", "about", "company", "description", "required",
     "please", "call", "opening", "job id", "location"}

RECURSIVE SkillsOf(_)
\* Lines 266-280: the siblings up to the next element whose name starts
\* with "h", those naming no excluded word.
SkillsOf(siblings) ==
    IF Len(siblings) = 0 THEN <<>>
    ELSE IF StartsWith(Lower(siblings[1].name), "h") THEN <<>>
    ELSE LET sibling_text == Strip(siblings[1].text)
         IN (IF sibling_text # ""
                /\ ~\E exclude \in SkillExcludes : Contains(Lower(sibling_text), exclude)
             THEN <<sibling_text>>
             ELSE <<>>)
            \o SkillsOf(Tail(siblings))

extract_skills_from_detail(page) ==
    LET hs == SelectSeq(page.headings,
                        LAMBDA h : Contains(Lower(Strip(h.text)), "key skill"))
    IN IF Len(hs) = 0 THEN "N/A"
       ELSE IF Len(SkillsOf(hs[1].siblings)) > 0
       THEN JoinWith(SkillsOf(hs[1].siblings), ", ")
       ELSE "N/A"

\* spans[1] raises IndexError on a page with fewer than two spans.
ExperienceRaises(page) == Len(page.spans) < 2

\* Python's spans[1] is the second span.
extract_experience_from_detail(page) == Strip(page.spans[2])

extract_salary_from_detail(page) ==
    IF Len(page.spans) >= 3 THEN Strip(page.spans[3]) ELSE "N/A"

\* txt.split(":", 1)[1] of a text that holds a colon.
AfterFirstColon(txt) ==
    LET i == CHOOSE k \in 1..Len(txt) :
                 /\ SubSeq(txt, k, k) = ":"
                 /\ \A j \in 1..(k - 1) : SubSeq(txt, j, j) # ":"
    IN SubSeq(txt, i + 1, Len(txt))

\* extract_label_value looking for the prefix anywhere in the text.
extract_label_value_Contains(page, label_text) ==
    LET target_prefix == Lower(label_text \o ":")
        hits == SelectSeq(page.nodes,
                          LAMBDA n : Contains(Lower(Strip(n)), target_prefix))
    IN IF Len(hits) > 0 THEN Strip(AfterFirstColon(Strip(hits[1]))) ELSE "N/A"

\* Lines 312-330.
extract_label_value(page, label_text) ==
    LET target_prefix == Lower(label_text \o ":")
        hits == SelectSeq(page.nodes,
                          LAMBDA n : StartsWith(Lower(Strip(n)), target_prefix))
    IN IF Len(hits) > 0 THEN Strip(AfterFirstColon(Strip(hits[1]))) ELSE "N/A"

\* Lines 436-450: the values extracted from one detail page.
ExtractDetail(page) ==
    [company |-> extract_company_from_detail(page),
     description |-> extract_description_from_detail(page),
     skills |-> extract_skills_from_detail(page),
     experience |-> extract_experience_from_detail(page),
     salary |-> extract_salary_from_detail(page),
     job_function |-> extract_label_value(page, "Job Function"),
     industry |-> extract_label_value(page, "Industry"),
     specialization |-> extract_label_value(page, "Specialization"),
     grad_courses |-> extract_label_value(page, "Graduate Courses"),
     post_grad_courses |-> extract_label_value(page, "Post Graduate Courses"),
     employment_type |-> extract_label_value(page, "Employment Type"),
     job_type |-> extract_label_value(page, "Job Type"),
     gender |-> extract_label_value(page, "Gender")]

\* Lines 453-470: the record of one job, x being the extracted values.
\* The record of lines 453-470 with the skills entry left out.
TimesJobsRecord_NoSkills(job, x) ==
    [source |-> "TimesJobs",
     title |-> job.title,
     company |-> x.company,
     url |-> job.url,
     description |-> x.description,
     experience |-> x.experience,
     salary |-> x.salary,
     job_function |-> x.job_function,
     industry |-> x.industry,
     specialization |-> x.specialization,
     graduate_courses |-> x.grad_courses,
     post_graduate_courses |-> x.post_grad_courses,
     employment_type |-> x.employment_type,
     job_type |-> x.job_type,
     gender |-> x.gender]

TimesJobsRecord(job, x) ==
    [source |-> "TimesJobs",
     title |-> job.title,
     company |-> x.company,
     url |-> job.url,
     description |-> x.description,
     experience |-> x.experience,
     salary |-> x.salary,
     job_function |-> x.job_function,
     industry |-> x.industry,
     specialization |-> x.specialization,
     graduate_courses |-> x.grad_courses,
     post_graduate_courses |-> x.post_grad_courses,
     employment_type |-> x.employment_type,
     job_type |-> x.job_type,
     gender |-> x.gender,
     skills |-> x.skills]

LongText ==
    "We are hiring a Python developer to build and maintain scraping services."

\* Every field present.
DetailFull ==
    DetailPage(Some(" Acme Corp "), Some(LongText), <<>>,
               <<Heading("h2", "Key Skills",
                         <<Node("span", "Python"), Node("span", "5 years experience"),
                           Node("span", "Django"), Node("h2", "About Company"),
                           Node("span", "Acme")>>)>>,
               <<"Ahmedabad", " 4-7 Years ", "10-12 LPA">>,
               <<"Job Function: IT Software : Products", "Industry: BPO",
                 "Post Graduate Courses: MCA", "Graduate Courses: BCA",
                 "Employment Type: Full Time", "Gender: Any">>)

\* Two spans only, and nothing else the extractors look for.
DetailSparse ==
    DetailPage(None, Some("Apply now"), <<"short block">>,
               <<Heading("h3", "Description", <<Node("p", "  ")>>)>>,
               <<"Pune", "0-1 Years">>,
               <<"Salary: 3 LPA", "Note: Industry: none">>)

\* A single span of the experience/salary class; the description is under a
\* "Job Description" heading.
DetailOneSpan ==
    DetailPage(Some("Globex"), None, <<>>,
               <<Heading("h3", "Job Description",
                         <<Node("p", "Build APIs"), Node("p", "  "),
                           Node("p", "Write tests")>>)>>,
               <<"Ahmedabad">>,
               <<"Industry: BPO">>)

\* The detail pages the site may serve.
DetailPages == {DetailFull, DetailSparse, DetailOneSpan}

\* What the page loop reads off each result page, tabulated once.
ListingRead ==
    [page \in ListingPages |->
        [no_results |-> check_for_no_results(page),
         total |-> get_total_pages(page),
         jobs |-> extract_jobs_from_page(page, TJ_BASE)]]

\* What the detail loop reads off each detail page, tabulated once: None
\* where the extraction raises.
DetailRead ==
    [page \in DetailPages |->
        IF ExperienceRaises(page) THEN None ELSE Some(ExtractDetail(page))]

(* ------------------------------ Talent.com ----------------------------- *)

TALENT_BASE == "https://in.talent.com"

\* A job card of the result page: the texts of the three elements the title
\* is looked for in (None where the card has no such element) and the href
\* of its first <a href> (None without one).
Card(h2_title, div_title, h2, href) ==
    [h2_title |-> h2_title, div_title |-> div_title, h2 |-> h2, href |-> href]

\* The result page: the cards of class gXOxBJ and those of class
\* link-job-wrap.
TalentPage(cards, wraps) == [cards |-> cards, wraps |-> wraps]

\* Lines 192-196.
JobCards(page) == IF Len(page.cards) > 0 THEN page.cards ELSE page.wraps

\* Lines 205-206.
TalentCardTitle(card) ==
    IF ~IsNone(card.h2_title) THEN Strip(card.h2_title[1])
    ELSE IF ~IsNone(card.div_title) THEN Strip(card.div_title[1])
    ELSE IF ~IsNone(card.h2) THEN Strip(card.h2[1])
    ELSE "N/A"

RECURSIVE CollectLinks(_, _)
\* Lines 201-223: the loop over job_cards.
CollectLinks(job_cards, base_url) ==
    IF Len(job_cards) = 0 THEN <<>>
    ELSE LET card == job_cards[1]
             href == card.href[1]
             full_link == IF StartsWith(href, "/") THEN base_url \o href ELSE href
         IN (IF ~IsNone(card.href)
             THEN <<[title |-> TalentCardTitle(card), url |-> full_link]>>
             ELSE <<>>)
            \o CollectLinks(Tail(job_cards), base_url)

\* A Talent.com detail page:
\*   desc_div     text of the first <div> whose class holds sc-fcd630a4-10
\*   bolds        the <b> elements: text, and the text of the <div> reached
\*                by climbing from it
\*   jd           text of the div with id or class job-description
\*   company_div  text of <div class="job-header__company">
\*   company_span text of <span class="hwHBRV">
TalentDetailPage(desc_div, bolds, jd, company_div, company_span) ==
    [desc_div |-> desc_div, bolds |-> bolds, jd |-> jd,
     company_div |-> company_div, company_span |-> company_span]

extract_talent_description(page) ==
    LET hits == SelectSeq(page.bolds,
                          LAMBDA b : /\ Contains(Lower(Strip(b.text)), "job description")
                                     /\ Len(Strip(b.container)) > MinDescLen)
    IN IF ~IsNone(page.desc_div) /\ Len(Strip(page.desc_div[1])) > MinDescLen
       THEN Strip(page.desc_div[1])
       ELSE IF Len(hits) > 0 THEN Strip(hits[1].container)
       ELSE IF ~IsNone(page.jd) /\ Strip(page.jd[1]) # ""
       THEN Strip(page.jd[1])
       ELSE "Description not found."

\* Lines 248-251.
TalentCompany(page) ==
    IF ~IsNone(page.company_div) THEN Strip(page.company_div[1])
    ELSE IF ~IsNone(page.company_span) THEN Strip(page.company_span[1])
    ELSE "N/A"

\* Lines 245-251: the values extracted from one detail page.
TalentExtract(page) ==
    [full_description |-> extract_talent_description(page),
     company |-> TalentCompany(page)]

\* Lines 254-271: the record of one job, x being the extracted values.
TalentRecord(job, x) ==
    [source |-> "Talent.com",
     title |-> job.title,
     company |-> x.company,
     url |-> job.url,
     description |-> x.full_description,
     experience |-> "",
     salary |-> "",
     job_function |-> "",
     industry |-> "",
     specialization |-> "",
     graduate_courses |-> "",
     post_graduate_courses |-> "",
     employment_type |-> "",
     job_type |-> "",
     gender |-> "",
     skills |-> ""]

CardGood == Card(Some(" Python Developer "), None, None, Some("/view?id=1"))
CardNoTitle == Card(None, None, None, Some("https://in.talent.com/view?id=2"))
CardBlankTitle == Card(None, Some("  "), Some("QA Engineer"), Some("view?id=3"))
CardNoLink == Card(None, None, Some("QA Engineer"), None)
CardEmptyHref == Card(None, Some("Data Analyst"), None, Some(""))

\* The result pages Talent.com may serve.
TalentPages ==
    { TalentPage(<<>>, <<>>),
      TalentPage(<<CardGood, CardNoTitle>>, <<>>),
      TalentPage(<<>>, <<CardGood, CardNoLink>>),
      TalentPage(<<CardEmptyHref, CardGood>>, <<>>),
      TalentPage(<<CardNoLink>>, <<CardGood>>),
      TalentPage(<<CardBlankTitle, CardGood>>, <<>>) }

\* The detail pages Talent.com may serve.
TalentDetailPages ==
    { TalentDetailPage(Some(LongText), <<>>, None, Some(" Acme Corp "), None),
      TalentDetailPage(Some("Apply"),
                       <<[text |-> "Job Description :", container |-> LongText]>>,
                       None, None, Some("Globex")),
      TalentDetailPage(None, <<[text |-> "Job description", container |-> "short"]>>,
                       Some("Maintain the crawler."), None, None),
      TalentDetailPage(None, <<>>, None, None, None) }

\* What scrape_talent_com reads off each page, tabulated once.
TalentListRead ==
    [page \in TalentPages |-> CollectLinks(JobCards(page), TALENT_BASE)]

TalentDetailRead ==
    [page \in TalentDetailPages |-> TalentExtract(page)]

(* ---------------------------- URL builders ----------------------------- *)

\* urllib.parse.quote_plus: the characters left as they are, and the escapes
\* of the others that occur.
SafeChars == CharsOf(UpperChars \o LowerChars \o DigitChars \o "_.-~")

PercentCode ==
    [c \in {"\"", ",", "&", "=", "+", "/", "?", ":", "#", "%"} |->
        CASE c = "\"" -> "%22"
          [] c = ","  -> "%2C"
          [] c = "&"  -> "%26"
          [] c = "="  -> "%3D"
          [] c = "+"  -> "%2B"
          [] c = "/"  -> "%2F"
          [] c = "?"  -> "%3F"
          [] c = ":"  -> "%3A"
          [] c = "#"  -> "%23"
          [] c = "%"  -> "%25"]

QuoteChar(c) ==
    IF c \in SafeChars THEN c ELSE IF c = " " THEN "+" ELSE PercentCode[c]

RECURSIVE QuotePlus(_)
QuotePlus(s) ==
    IF Len(s) = 0 THEN ""
    ELSE QuoteChar(SubSeq(s, 1, 1)) \o QuotePlus(SubSeq(s, 2, Len(s)))

\* urllib.parse.urlencode of a dict, given as its <<key, value>> pairs in
\* insertion order, the values already passed through str().
UrlEncode(params) ==
    JoinWith([i \in 1..Len(params) |->
                 QuotePlus(params[i][1]) \o "=" \o QuotePlus(params[i][2])], "&")

\* Python's truth value of an argument that is None or a string.
Given(s) == ~IsNone(s) /\ s[1] # ""

\* str() of an argument that is None or a string.
PyStr(s) == IF IsNone(s) THEN "None" ELSE s[1]

TJ_SEARCH == "https://www.timesjobs.com/job-search"

\* A Python value as its type and its str().
PyNone == <<"NoneType", "None">>

PyInt(n) == <<"int", IntToStr(n)>>

PyText(s) == <<"str", s>>

\* Lines 43-57. keyword and location: None or Some(string); experience: a
\* Python value; page: a number.
TimesJobsUrl(keyword, location, experience, page) ==
    LET params ==
            << <<"refreshed", "true">> >>
            \o (IF Given(keyword)
                THEN << <<"keywords", "\"" \o keyword[1] \o "\"">> >> ELSE <<>>)
            \o (IF Given(location)
                THEN << <<"location", location[1] \o ",">> >> ELSE <<>>)
            \o (IF experience # PyNone
                THEN << <<"experience", experience[2]>> >> ELSE <<>>)
            \o (IF page > 1 THEN << <<"page", IntToStr(page)>> >> ELSE <<>>)
    IN TJ_SEARCH \o "?" \o UrlEncode(params)

\* The function called with experience None or Some(number).
build_timesjobs_url(keyword, location, experience, page) ==
    TimesJobsUrl(keyword, location,
                 IF IsNone(experience) THEN PyNone ELSE PyInt(experience[1]), page)

TALENT_SEARCH == "https://in.talent.com/jobs"

\* location, keyword, date_posted, job_type and company: None or
\* Some(string); radius: None or Some(number); remote and promoted: None or
\* Some(boolean); page: a number.
build_filter_url(location, keyword, radius, date_posted, remote, promoted, job_type, company, page) ==
    LET params ==
            << <<"l", PyStr(location)>> >>
            \o (IF Given(keyword) THEN << <<"k", keyword[1]>> >> ELSE <<>>)
            \o (IF ~IsNone(radius) /\ radius[1] # 0
                THEN << <<"radius", IntToStr(radius[1])>> >> ELSE <<>>)
            \o (IF Given(date_posted) THEN << <<"date", date_posted[1]>> >> ELSE <<>>)
            \o (IF ~IsNone(remote)
                THEN << <<"workplace", IF remote[1] THEN "remote" ELSE "">> >>
                ELSE <<>>)
            \o (IF ~IsNone(promoted)
                THEN << <<"promoted", IF promoted[1] THEN "1" ELSE "0">> >>
                ELSE <<>>)
            \o (IF Given(job_type) THEN << <<"job_type", job_type[1]>> >> ELSE <<>>)
            \o (IF Given(company) THEN << <<"company", company[1]>> >> ELSE <<>>)
            \o (IF page > 1 THEN << <<"p", IntToStr(page)>> >> ELSE <<>>)
    IN IF Len(params) > 0 THEN TALENT_SEARCH \o "?" \o UrlEncode(params)
       ELSE TALENT_SEARCH

(* ----------------------------- the crawl ------------------------------- *)

VARIABLES
    crawler,        \* the function called: "timesjobs" or "talent"
    max_pages,      \* the max_pages argument of scrape_all_jobs, None or Some(k)
    pc,             \* where the call is
    driver,         \* the browser session: "none", "open" or "quit"
    quit_calls,     \* how often driver.quit() was called
    soup,           \* the result page parsed last, None before the first
    total_pages,    \* scrape_all_jobs: number of pages to walk
    page_num,       \* scrape_all_jobs: the page the page loop takes next
    all_jobs,       \* scrape_all_jobs: stubs collected
    jobs_to_visit,  \* scrape_talent_com: stubs collected
    idx,            \* number of stubs the detail loop is done with
    detail_soup,    \* the detail page parsed last, None before the first
    jobs_data,      \* records built
    result,         \* the list the call returns
    detected,       \* history: get_total_pages of the first page, 0 before
    requested,      \* history: result-page numbers given to load_page, in order
    visited,        \* history: urls given to driver.get by the detail loop
    failed,         \* history: indices of the stubs whose processing raised
    fault,          \* history: where the browser first failed, "none" before
    page_log,       \* history: how each iteration of the page loop ended
    slept,          \* history: a random sleep was taken since the last load or visit
    event           \* history: what the last step of the crawl met

\* The search filter of scrape_all_jobs.
VARIABLES
    called_with,    \* history: the keyword, location and experience of the call
    locals,         \* the local variables keyword, location and experience
    page_urls       \* history: the URLs build_timesjobs_url returned, in order

\* A single call of one of the functions that use no browser.
VARIABLES
    fn,             \* the function called, "none" during a crawl
    arg,            \* its arguments
    ret             \* None before it returns, then Some(value returned)

\* The locals of parse_jobs_file.
VARIABLES
    jobs,           \* the records completed so far
    current,        \* None, or Some(record being filled)
    line_no         \* the number of lines of the file read so far

crawl_vars == <<crawler, max_pages, pc, driver, quit_calls, soup, total_pages, page_num,
                all_jobs, jobs_to_visit, idx, detail_soup, jobs_data, result,
                detected, requested, visited, failed, fault, page_log, slept, event,
                called_with, locals, page_urls>>

query_vars == <<called_with, locals, page_urls>>

\* Line 333: keyword and location at their defaults, no experience filter
\* or a number of years.
TimesJobsCalls ==
    [keyword : {Some("Python")}, location : {Some("Ahmedabad")},
     experience : {PyNone, PyInt(2)}]

\* No search filter is followed: the call is not one of scrape_all_jobs.
NoQuery == [keyword |-> None, location |-> None, experience |-> PyNone]

\* The URL of result page n is built without the experience filter.
PageUrl_NoExperience(env, n) ==
    TimesJobsUrl(env.keyword, env.location, PyNone, n)

\* Lines 351 and 380: the URL of result page n, from the locals as they are
\* when it is built.
PageUrl(env, n) ==
    TimesJobsUrl(env.keyword, env.location, env.experience, n)

parse_vars == <<jobs, current, line_no>>

fn_vars == <<fn, arg, ret, parse_vars>>

vars == <<crawl_vars, fn_vars>>

Init ==
    /\ crawler \in {"timesjobs", "talent"}
    /\ max_pages \in IF crawler = "timesjobs"
                     THEN {None} \cup {Some(k) : k \in 0..MaxCap}
                     ELSE {None}
    /\ pc = "call"
    /\ driver = "none"
    /\ quit_calls = 0
    /\ soup = None
    /\ total_pages = 0
    /\ page_num = 0
    /\ all_jobs = <<>>
    /\ jobs_to_visit = <<>>
    /\ idx = 0
    /\ detail_soup = None
    /\ jobs_data = <<>>
    /\ result = <<>>
    /\ detected = 0
    /\ requested = <<>>
    /\ visited = <<>>
    /\ failed = {}
    /\ fault = "none"
    /\ page_log = <<>>
    /\ slept = FALSE
    /\ event = "none"
    /\ called_with \in IF crawler = "timesjobs"
                       THEN {c \in TimesJobsCalls :
                                \/ c.experience = PyNone
                                \/ /\ ~IsNone(max_pages)
                                   /\ max_pages[1] \in 1..MaxFilteredCap}
                       ELSE {NoQuery}
    /\ locals = called_with
    /\ page_urls = <<>>
    /\ fn = "none"
    /\ arg = None
    /\ jobs = <<>>
    /\ current = None
    /\ line_no = 0
    /\ ret = None

\* The browser fails at place where: only the first failure is kept.
FirstFault(where) == IF fault = "none" THEN where ELSE fault

\* get_driver(), called before the try statement of either function: the
\* session opens, or webdriver.Chrome raises and the call raises with it.
GetDriver ==
    /\ pc = "call"
    /\ UNCHANGED fn_vars
    /\ UNCHANGED query_vars
    /\ \/ /\ driver' = "open"
          /\ pc' = IF crawler = "timesjobs" THEN "tj_first" ELSE "tc_list"
          /\ event' = "driver_open"
          /\ UNCHANGED fault
       \/ /\ driver' = "none"
          /\ pc' = "raised"
          /\ event' = "driver_failed"
          /\ fault' = "get_driver"
    /\ UNCHANGED <<crawler, max_pages, quit_calls, soup, total_pages, page_num,
                   all_jobs, jobs_to_visit, idx, detail_soup, jobs_data, result,
                   detected, requested, visited, failed, page_log, slept>>

\* The outer handler going on with the crawl instead of returning.
OuterHandler_Continue ==
    /\ event' = "critical_error"
    /\ fault' = FirstFault("first_page")
    /\ UNCHANGED result
    /\ pc' = IF crawler = "timesjobs" THEN "tj_collected" ELSE "tc_details"

\* The handler of the outer try statement (scrape_all_jobs lines 488-490,
\* scrape_talent_com lines 281-283), entered when the first page load
\* raises: return [].
OuterHandler ==
    /\ event' = "critical_error"
    /\ fault' = FirstFault("first_page")
    /\ result' = <<>>
    /\ pc' = "finally"

\* The page cap taken whenever it is given, also above the detected total.
CappedPages_Forced(total, cap) ==
    IF ~IsNone(cap) /\ cap[1] # 0 THEN cap[1] ELSE total

\* Lines 369-370 of scrape_all_jobs: the page cap.
CappedPages(total, cap) ==
    IF ~IsNone(cap) /\ cap[1] # 0 /\ cap[1] < total THEN cap[1] ELSE total

\* scrape_all_jobs, lines 351-373: the first page is loaded and read.
TJ_FirstPage ==
    /\ pc = "tj_first"
    /\ UNCHANGED fn_vars
    /\ page_urls' = Append(page_urls, PageUrl(locals, 1))
    /\ UNCHANGED <<called_with, locals>>
    /\ requested' = Append(requested, 1)
    /\ slept' = FALSE
    /\ \/ \* load_page raises
          /\ OuterHandler
          /\ UNCHANGED <<soup, total_pages, page_num, detected>>
       \/ \E page \in ListingPages :
             /\ soup' = Some(page)
             /\ UNCHANGED fault
             /\ IF ListingRead[page].no_results
                THEN /\ event' = "no_results"
                     /\ result' = <<>>
                     /\ pc' = "finally"
                     /\ UNCHANGED <<total_pages, page_num, detected>>
                ELSE /\ event' = "first_page"
                     /\ detected' = ListingRead[page].total
                     /\ total_pages' = CappedPages(ListingRead[page].total, max_pages)
                     /\ page_num' = 1
                     /\ pc' = IF total_pages' >= 1 THEN "tj_pages" ELSE "tj_collected"
                     /\ UNCHANGED result
    /\ UNCHANGED <<crawler, max_pages, driver, quit_calls, all_jobs, jobs_to_visit,
                   idx, detail_soup, jobs_data, visited, failed, page_log>>

\* The handler of the page loop leaving the loop instead of going on.
SkipPage_Break ==
    /\ event' = "page_error"
    /\ fault' = FirstFault("page")
    /\ page_log' = Append(page_log, "error")
    /\ slept' = FALSE
    /\ pc' = "tj_collected"
    /\ UNCHANGED <<soup, all_jobs, page_num>>

\* The handler of the try statement inside the page loop (lines 405-407):
\* the page gives no stubs and the loop goes on with the next page.
SkipPage ==
    /\ event' = "page_error"
    /\ fault' = FirstFault("page")
    /\ page_log' = Append(page_log, "error")
    /\ slept' = FALSE
    /\ page_num' = page_num + 1
    /\ pc' = IF page_num = total_pages THEN "tj_collected" ELSE "tj_pages"
    /\ UNCHANGED <<soup, all_jobs>>

\* scrape_all_jobs, lines 376-407: one iteration of the page loop.
TJ_Page ==
    /\ pc = "tj_pages"
    /\ UNCHANGED fn_vars
    /\ page_urls' = Append(page_urls, PageUrl(locals, page_num))
    /\ UNCHANGED <<called_with, locals>>
    /\ requested' = Append(requested, page_num)
    /\ \/ \* load_page raises
          SkipPage
       \/ \E page \in ListingPages :
             /\ soup' = Some(page)
             /\ UNCHANGED fault
             /\ IF ListingRead[page].no_results
                THEN /\ event' = "end_of_results"
                     /\ page_log' = Append(page_log, "end")
                     /\ slept' = FALSE
                     /\ pc' = "tj_collected"
                     /\ UNCHANGED <<page_num, all_jobs>>
                ELSE /\ event' = "page_ok"
                     /\ page_log' = Append(page_log, "ok")
                     /\ all_jobs' = all_jobs \o ListingRead[page].jobs
                     \* lines 400-403: random.uniform(3, 6)
                     /\ slept' = (page_num < total_pages)
                     /\ page_num' = page_num + 1
                     /\ pc' = IF page_num = total_pages THEN "tj_collected" ELSE "tj_pages"
    /\ UNCHANGED <<crawler, max_pages, driver, quit_calls, total_pages, jobs_to_visit,
                   idx, detail_soup, jobs_data, result, detected, visited, failed>>

\* scrape_all_jobs, lines 409-420: between the two phases.  soup is not read
\* again and is dropped here.
TJ_StartDetails ==
    /\ pc = "tj_collected"
    /\ UNCHANGED fn_vars
    /\ UNCHANGED query_vars
    /\ soup' = None
    /\ IF Len(all_jobs) = 0
       THEN /\ event' = "no_jobs"
            /\ result' = <<>>
            /\ pc' = "finally"
       ELSE /\ event' = "phase2"
            /\ pc' = "tj_details"
            /\ UNCHANGED result
    /\ idx' = 0
    /\ jobs_data' = <<>>
    /\ UNCHANGED <<crawler, max_pages, driver, quit_calls, total_pages, page_num,
                   all_jobs, jobs_to_visit, detail_soup, detected, requested,
                   visited, failed, fault, page_log, slept>>

\* The handler of the detail loop taking the same stub again.
SkipJob_Retry(i) ==
    /\ failed' = failed \cup {i}
    /\ UNCHANGED <<idx, jobs_data>>

\* The handler of the detail loop leaving the loop instead of going on.
SkipJob_Abort(i) ==
    /\ failed' = failed \cup {i}
    /\ idx' = IF crawler = "timesjobs" THEN Len(all_jobs) ELSE Len(jobs_to_visit)
    /\ UNCHANGED jobs_data

\* The handler of the try statement inside either detail loop
\* (scrape_all_jobs lines 475-477, scrape_talent_com lines 274-276): stub i
\* gives no record and the loop goes on with the next stub.
SkipJob(i) ==
    /\ failed' = failed \cup {i}
    /\ idx' = i
    /\ UNCHANGED jobs_data

\* scrape_all_jobs, lines 423-477: one iteration of the detail loop.
TJ_Detail ==
    /\ pc = "tj_details"
    /\ UNCHANGED fn_vars
    /\ UNCHANGED <<called_with, page_urls>>
    /\ idx < Len(all_jobs)
    /\ LET job == all_jobs[idx + 1]
       IN /\ visited' = Append(visited, job.url)
          /\ \/ \* driver.get raises, before the sleep
                /\ event' = "job_get_failed"
                /\ fault' = FirstFault("detail")
                /\ slept' = FALSE
                /\ SkipJob(idx + 1)
                /\ UNCHANGED <<detail_soup, locals>>
             \/ \E page \in DetailPages :
                   /\ detail_soup' = Some(page)
                   \* line 431: random.uniform(1, 2)
                   /\ slept' = TRUE
                   /\ UNCHANGED fault
                   /\ IF IsNone(DetailRead[page])
                      THEN /\ event' = "job_extract_failed"
                           /\ SkipJob(idx + 1)
                           /\ UNCHANGED locals
                      ELSE /\ event' = "job_ok"
                           \* line 439
                           /\ locals' = [locals EXCEPT !.experience =
                                             PyText(DetailRead[page][1].experience)]
                           /\ jobs_data' = Append(jobs_data,
                                                  TimesJobsRecord(job, DetailRead[page][1]))
                           /\ idx' = idx + 1
                           /\ UNCHANGED failed
    /\ UNCHANGED <<crawler, max_pages, pc, driver, quit_calls, soup, total_pages,
                   page_num, all_jobs, jobs_to_visit, result, detected, requested,
                   page_log>>

\* scrape_all_jobs, lines 479-487: return jobs_data.
TJ_Return ==
    /\ pc = "tj_details"
    /\ UNCHANGED fn_vars
    /\ UNCHANGED query_vars
    /\ idx = Len(all_jobs)
    /\ result' = jobs_data
    /\ event' = "complete"
    /\ pc' = "finally"
    /\ UNCHANGED <<crawler, max_pages, driver, quit_calls, soup, total_pages,
                   page_num, all_jobs, jobs_to_visit, idx, detail_soup, jobs_data,
                   detected, requested, visited, failed, fault, page_log, slept>>

\* scrape_talent_com, lines 180-229: the result page is loaded and its
\* links are collected.
TC_List ==
    /\ pc = "tc_list"
    /\ UNCHANGED fn_vars
    /\ UNCHANGED query_vars
    /\ requested' = Append(requested, 1)
    /\ slept' = FALSE
    /\ \/ \* driver.get, execute_script or page_source raises
          /\ OuterHandler
          /\ UNCHANGED <<soup, jobs_to_visit>>
       \/ \E page \in TalentPages :
             /\ soup' = Some(page)
             /\ UNCHANGED fault
             /\ jobs_to_visit' = TalentListRead[page]
             /\ event' = "phase2"
             /\ pc' = "tc_details"
             /\ UNCHANGED result
    /\ idx' = 0
    /\ jobs_data' = <<>>
    /\ UNCHANGED <<crawler, max_pages, driver, quit_calls, total_pages, page_num,
                   all_jobs, detail_soup, detected, visited, failed, page_log>>

\* scrape_talent_com, lines 231-276: one iteration of the detail loop.
TC_Detail ==
    /\ pc = "tc_details"
    /\ UNCHANGED fn_vars
    /\ UNCHANGED query_vars
    /\ idx < Len(jobs_to_visit)
    /\ LET job == jobs_to_visit[idx + 1]
       IN /\ visited' = Append(visited, job.url)
          /\ \/ \* driver.get raises, before the sleep
                /\ event' = "job_get_failed"
                /\ fault' = FirstFault("detail")
                /\ slept' = FALSE
                /\ SkipJob(idx + 1)
                /\ UNCHANGED detail_soup
             \/ \E page \in TalentDetailPages :
                   /\ detail_soup' = Some(page)
                   \* line 239: random.uniform(2, 4)
                   /\ slept' = TRUE
                   /\ UNCHANGED fault
                   /\ event' = "job_ok"
                   /\ jobs_data' = Append(jobs_data, TalentRecord(job, TalentDetailRead[page]))
                   /\ idx' = idx + 1
                   /\ UNCHANGED failed
    /\ UNCHANGED <<crawler, max_pages, pc, driver, quit_calls, soup, total_pages,
                   page_num, all_jobs, jobs_to_visit, result, detected, requested,
                   page_log>>

\* scrape_talent_com, lines 278-279: return jobs_data.
TC_Return ==
    /\ pc = "tc_details"
    /\ UNCHANGED fn_vars
    /\ UNCHANGED query_vars
    /\ idx = Len(jobs_to_visit)
    /\ result' = jobs_data
    /\ event' = "complete"
    /\ pc' = "finally"
    /\ UNCHANGED <<crawler, max_pages, driver, quit_calls, soup, total_pages,
                   page_num, all_jobs, jobs_to_visit, idx, detail_soup, jobs_data,
                   detected, requested, visited, failed, fault, page_log, slept>>

\* driver.quit() called at the end of the try body only, the early returns
\* and the handler leaving without it.
Finally_OnlyOnSuccess ==
    /\ pc = "finally"
    /\ UNCHANGED fn_vars
    /\ UNCHANGED query_vars
    /\ pc' = "returned"
    /\ IF event = "complete"
       THEN quit_calls' = quit_calls + 1 /\ driver' = "quit"
       ELSE UNCHANGED <<quit_calls, driver>>
    /\ UNCHANGED <<crawler, max_pages, soup, total_pages, page_num, all_jobs,
                   jobs_to_visit, idx, detail_soup, jobs_data, result, detected,
                   requested, visited, failed, fault, page_log, slept, event>>

\* The finally clause of either function: driver.quit().  When it raises,
\* the exception replaces the pending return.
Finally ==
    /\ pc = "finally"
    /\ UNCHANGED fn_vars
    /\ UNCHANGED query_vars
    /\ quit_calls' = quit_calls + 1
    /\ driver' = "quit"
    /\ \/ /\ pc' = "returned"
          /\ UNCHANGED <<result, event, fault>>
       \/ /\ pc' = "raised"
          /\ result' = <<>>
          /\ event' = "quit_failed"
          /\ fault' = FirstFault("quit")
    /\ UNCHANGED <<crawler, max_pages, soup, total_pages, page_num, all_jobs,
                   jobs_to_visit, idx, detail_soup, jobs_data, detected, requested,
                   visited, failed, page_log, slept>>

Next ==
    \/ GetDriver
    \/ TJ_FirstPage
    \/ TJ_Page
    \/ TJ_StartDetails
    \/ TJ_Detail
    \/ TJ_Return
    \/ TC_List
    \/ TC_Detail
    \/ TC_Return
    \/ Finally

Spec == Init /\ [][Next]_vars

(* ------------------- calls of the functions without a browser ----------- *)

\* Largest page number passed to the URL builders.
MaxUrlPage == 3

Keywords == {None, Some(""), Some("Python"), Some("Python Developer"), Some("R&D")}

Locations == {None, Some(""), Some("Ahmedabad"), Some("New Delhi")}

TimesJobsUrlArgs ==
    [keyword : Keywords, location : Locations, experience : {None, Some(0), Some(2)},
     page : 1..MaxUrlPage]

TalentUrlArgs ==
    [location : Locations, keyword : Keywords, radius : {None, Some(0), Some(25)},
     date_posted : {None, Some("7d")}, remote : {None, Some(TRUE), Some(FALSE)},
     promoted : {None, Some(TRUE)}, job_type : {None, Some("fulltime")},
     company : {None, Some("Sikich India")}, page : 1..MaxUrlPage]

\* A description of more than 50 characters, with the blanks get_text
\* strips, and a text of exactly 50.
LongBlock ==
    "  Role: backend engineer for the data platform team, five days a week. "

FiftyChars == "Maintain the crawler and the exports for the team."

JobDescriptionSiblings ==
    <<Node("p", "Build APIs"), Node("p", "  "), Node("p", "Write tests")>>

\* The heading rows of the pages extract_description_from_detail is called
\* with.
DescHeadingRows ==
    { <<>>,
      <<Heading("h3", "Job Description", JobDescriptionSiblings)>>,
      <<Heading("h2", "Company Description", <<>>),
        Heading("h3", "Job Description", JobDescriptionSiblings)>>,
      <<Heading("h2", "Key Skills", <<Node("span", "Python")>>),
        Heading("h5", " JOB DESCRIPTION: ", <<Node("div", " Write tests ")>>)>>,
      <<Heading("h4", "Job Description", <<Node("div", "  ")>>)>> }

DescPages ==
    { DetailPage(None, rtd, blocks, headings, <<>>, <<>>) :
        rtd \in {None, Some("Apply now"), Some(FiftyChars), Some(LongText)},
        blocks \in {<<>>, <<"short block">>, <<"short block", LongBlock>>},
        headings \in DescHeadingRows }

\* The two lists merged in the other order.
MergeJobs_TimesJobsFirst(talent_jobs, timesjobs_jobs) ==
    (IF IsNone(timesjobs_jobs) THEN <<>> ELSE timesjobs_jobs[1])
    \o (IF IsNone(talent_jobs) THEN <<>> ELSE talent_jobs[1])

\* main.py, lines 241-248: the merged list of a combined run.  Each
\* argument is None or Some(list).
MergeJobs(talent_jobs, timesjobs_jobs) ==
    (IF IsNone(talent_jobs) THEN <<>> ELSE talent_jobs[1])
    \o (IF IsNone(timesjobs_jobs) THEN <<>> ELSE timesjobs_jobs[1])

\* Longest list either crawler hands to the merge.
MaxMergeLen == 2

SeqsUpTo(S, n) == UNION {[1..k -> S] : k \in 0..n}

\* Records scrape_talent_com builds from the cards and pages above.
TalentReturned ==
    LET stubs == TalentListRead[TalentPage(<<CardGood, CardNoTitle>>, <<>>)]
    IN {TalentRecord(stubs[1], x) : x \in {TalentDetailRead[q] : q \in TalentDetailPages}}
       \cup {TalentRecord(stubs[2], TalentDetailRead[TalentDetailPage(None, <<>>, None, None, None)])}

\* Records scrape_all_jobs builds from the pages above.
TimesJobsReturned ==
    LET stubs == extract_jobs_from_page(ListingPage("Python jobs in Ahmedabad", <<>>, LinksC),
                                        TJ_BASE)
    IN {TimesJobsRecord(stubs[1], DetailRead[DetailFull][1]),
        TimesJobsRecord(stubs[2], DetailRead[DetailFull][1]),
        TimesJobsRecord(stubs[2], DetailRead[DetailSparse][1])}

MergeArgs ==
    [talent_jobs : {None} \cup {Some(l) : l \in SeqsUpTo(TalentReturned, MaxMergeLen)},
     timesjobs_jobs : {None} \cup {Some(l) : l \in SeqsUpTo(TimesJobsReturned, MaxMergeLen)}]

\* The labels of lines 443-450.
Labels ==
    {"Job Function", "Industry", "Specialization", "Graduate Courses",
     "Post Graduate Courses", "Employment Type", "Job Type", "Gender"}

\* get_text(" ") of the li, div, span and p elements of a page, in document
\* order: a flat list of fields, a <div> holding two fields followed by the
\* fields themselves, labels in other cases and with blanks, and a text
\* that holds a label without starting with it.
LabelNodeRows ==
    { <<>>,
      <<"Job Function: IT Software : Products", "Industry: BPO",
        "Post Graduate Courses: MCA", "Graduate Courses: BCA",
        "Employment Type: Full Time", "Gender: Any">>,
      <<"Job Function: IT Industry: BPO", "Job Function: IT", "Industry: BPO">>,
      <<"Note: Industry: none", "  industry:   Retail  ", "Industry: BPO">>,
      <<"Post Graduate Courses: MCA", "Job Type:", "GENDER: Any">>,
      <<"Apply now", "Industry BPO">> }

LabelArgs == [page : {[nodes |-> r] : r \in LabelNodeRows}, label_text : Labels]

(* --------------------------- parse_jobs_file ---------------------------- *)

\* Lines 140-171 of main.py: the prefixes tested, in the order of the elif
\* chain, each with the key it fills.
LabelFields ==
    << <<"Title:", "title">>,
       <<"Company:", "company">>,
       <<"Experience:", "experience">>,
       <<"Salary:", "salary">>,
       <<"Job Function:", "job_function">>,
       <<"Industry:", "industry">>,
       <<"Specialization:", "specialization">>,
       <<"Graduate Courses:", "graduate_courses">>,
       <<"Post Graduate Courses:", "post_graduate_courses">>,
       <<"Employment Type:", "employment_type">>,
       <<"Job Type:", "job_type">>,
       <<"Gender:", "gender">>,
       <<"URL:", "url">>,
       <<"Description:", "description">>,
       <<"Skills:", "skills">> >>

\* Lines 121-138: the record a "Job #" line opens.
NewRecord(source) ==
    [source |-> source, title |-> "", company |-> "", experience |-> "",
     salary |-> "", job_function |-> "", industry |-> "", specialization |-> "",
     graduate_courses |-> "", post_graduate_courses |-> "",
     employment_type |-> "", job_type |-> "", gender |-> "", url |-> "",
     description |-> "", skills |-> ""]

\* The previous record is forgotten when a new one opens.
SavePrevious_Drop(done, cur) == done

\* Lines 119-120 and 173-174: `if current: jobs.append(current)`; a record
\* has sixteen keys, so it is true whenever current is not None.
SavePrevious(done, cur) == IF ~IsNone(cur) THEN Append(done, cur[1]) ELSE done

\* Lines 140-171: the first prefix of the chain the line starts with picks
\* the key; the value is line.split(prefix, 1)[1].strip(). A line that
\* starts with none of them changes nothing.
FillField(record, line) ==
    LET hits == SelectSeq(LabelFields, LAMBDA lf : StartsWith(line, lf[1]))
    IN IF Len(hits) = 0
       THEN record
       ELSE [record EXCEPT ![hits[1][2]] =
                Strip(SubSeq(line, Len(hits[1][1]) + 1, Len(line)))]

MaxLines == 4

\* Lines of a saved file, each without its newline: two that open a record
\* (one of them with a label after the number), labelled lines, the same
\* label twice with different values, a label inside a value, and a
\* labelled line that is indented.
FileLineTexts ==
    {"Job #1", "Job #2 Title: inline", "Title: Dev", "Title:  Senior Dev ",
     "Graduate Courses: BCA", "Post Graduate Courses: MCA",
     "Description: Title: nested", " Company: indented"}

\* The file at `path`: None when it does not exist, else its lines.
ParseArgs ==
    [file : {None} \cup {Some(l) : l \in SeqsUpTo(FileLineTexts, MaxLines)},
     source : {"TimesJobs", "Talent.com"}]

\* No crawl is running.
NoCrawl ==
    /\ crawler = "none"
    /\ max_pages = None
    /\ pc = "none"
    /\ driver = "none"
    /\ quit_calls = 0
    /\ soup = None
    /\ total_pages = 0
    /\ page_num = 0
    /\ all_jobs = <<>>
    /\ jobs_to_visit = <<>>
    /\ idx = 0
    /\ detail_soup = None
    /\ jobs_data = <<>>
    /\ result = <<>>
    /\ detected = 0
    /\ requested = <<>>
    /\ visited = <<>>
    /\ failed = {}
    /\ fault = "none"
    /\ page_log = <<>>
    /\ slept = FALSE
    /\ event = "none"
    /\ called_with = NoQuery
    /\ locals = NoQuery
    /\ page_urls = <<>>

FnInit ==
    /\ NoCrawl
    /\ ret = None
    /\ jobs = <<>>
    /\ current = None
    /\ line_no = 0
    /\ \/ fn = "build_timesjobs_url" /\ arg \in TimesJobsUrlArgs
       \/ fn = "build_filter_url" /\ arg \in TalentUrlArgs
       \/ fn = "extract_description_from_detail" /\ arg \in DescPages
       \/ fn = "merge" /\ arg \in MergeArgs
       \/ fn = "extract_label_value" /\ arg \in LabelArgs
       \/ fn = "parse_jobs_file" /\ arg \in ParseArgs

Call_build_timesjobs_url ==
    /\ fn = "build_timesjobs_url"
    /\ IsNone(ret)
    /\ ret' = Some(build_timesjobs_url(arg.keyword, arg.location, arg.experience,
                                       arg.page))
    /\ UNCHANGED <<fn, arg, parse_vars, crawl_vars>>

Call_build_filter_url ==
    /\ fn = "build_filter_url"
    /\ IsNone(ret)
    /\ ret' = Some(build_filter_url(arg.location, arg.keyword, arg.radius,
                                    arg.date_posted, arg.remote, arg.promoted,
                                    arg.job_type, arg.company, arg.page))
    /\ UNCHANGED <<fn, arg, parse_vars, crawl_vars>>

Call_extract_description_from_detail ==
    /\ fn = "extract_description_from_detail"
    /\ IsNone(ret)
    /\ ret' = Some(extract_description_from_detail(arg))
    /\ UNCHANGED <<fn, arg, parse_vars, crawl_vars>>

Call_merge ==
    /\ fn = "merge"
    /\ IsNone(ret)
    /\ ret' = Some(MergeJobs(arg.talent_jobs, arg.timesjobs_jobs))
    /\ UNCHANGED <<fn, arg, parse_vars, crawl_vars>>

Call_extract_label_value ==
    /\ fn = "extract_label_value"
    /\ IsNone(ret)
    /\ ret' = Some(extract_label_value(arg.page, arg.label_text))
    /\ UNCHANGED <<fn, arg, parse_vars, crawl_vars>>

\* Lines 107-108: no file at the path.
Parse_Missing ==
    /\ fn = "parse_jobs_file"
    /\ IsNone(ret)
    /\ IsNone(arg.file)
    /\ ret' = Some(<<>>)
    /\ UNCHANGED <<fn, arg, parse_vars, crawl_vars>>

\* Lines 114-171: one iteration of the loop over the lines.
Parse_Line ==
    /\ fn = "parse_jobs_file"
    /\ IsNone(ret)
    /\ ~IsNone(arg.file)
    /\ line_no < Len(arg.file[1])
    /\ LET line == arg.file[1][line_no + 1]
       IN IF StartsWith(line, "Job #")
          THEN /\ jobs' = SavePrevious(jobs, current)
               /\ current' = Some(NewRecord(arg.source))
          ELSE IF ~IsNone(current)
          THEN /\ current' = Some(FillField(current[1], line))
               /\ jobs' = jobs
          ELSE UNCHANGED <<jobs, current>>
    /\ line_no' = line_no + 1
    /\ UNCHANGED <<fn, arg, ret, crawl_vars>>

\* Lines 173-176: the loop is over.
Parse_Return ==
    /\ fn = "parse_jobs_file"
    /\ IsNone(ret)
    /\ ~IsNone(arg.file)
    /\ line_no = Len(arg.file[1])
    /\ jobs' = SavePrevious(jobs, current)
    /\ ret' = Some(jobs')
    /\ UNCHANGED <<fn, arg, current, line_no, crawl_vars>>

FnNext ==
    \/ Call_build_timesjobs_url
    \/ Call_build_filter_url
    \/ Call_extract_description_from_detail
    \/ Call_merge
    \/ Call_extract_label_value
    \/ Parse_Missing
    \/ Parse_Line
    \/ Parse_Return

FnSpec == FnInit /\ [][FnNext]_vars

(* ------------------------------ properties ------------------------------ *)

SchemaKeys ==
    {"source", "title", "company", "url", "description", "experience", "salary",
     "job_function", "industry", "specialization", "graduate_courses",
     "post_graduate_courses", "employment_type", "job_type", "gender", "skills"}

\* The stubs the called function has collected.
Stubs == IF crawler = "timesjobs" THEN all_jobs ELSE jobs_to_visit

\* The body of the function is left: the finally clause is next or done.
Finished == pc \in {"finally", "returned", "raised"}

Range(s) == {s[i] : i \in DOMAIN s}

PlaceholderTitles == {"", "N/A"}

\* C1: every record either crawler builds, and so every record of the list
\* it returns, carries exactly the 16 schema keys.
C1_FullSchema ==
    /\ \A i \in DOMAIN jobs_data : DOMAIN jobs_data[i] = SchemaKeys
    /\ \A i \in DOMAIN result : DOMAIN result[i] = SchemaKeys

\* A call has returned two records that differ.
C1_Witness ==
    /\ pc = "returned"
    /\ Len(result) >= 2
    /\ result[1] # result[2]

\* Whether the text of a result page holds one of the two no-results
\* phrases, whatever its case.
SaysNoResults ==
    [page \in ListingPages |->
        \E phrase \in {"no jobs matching", "no results found"} :
            Contains(Lower(GetText(page)), phrase)]

\* scrape_all_jobs has loaded its first page and nothing else, and the text
\* of that page holds a no-results phrase.
FirstPageSaysNoResults ==
    /\ crawler = "timesjobs"
    /\ Len(requested) = 1
    /\ ~IsNone(soup)
    /\ SaysNoResults[soup[1]]

\* C2: when the text of the first page holds a no-results phrase,
\* scrape_all_jobs goes straight to its return of the empty list: no stub is
\* collected, no further page is loaded and no detail page is visited.
C2_NoResultsShortCircuit ==
    FirstPageSaysNoResults =>
        /\ Finished
        /\ result = <<>>
        /\ all_jobs = <<>>
        /\ jobs_data = <<>>
        /\ visited = <<>>

\* scrape_all_jobs has returned after a first page that holds a no-results
\* phrase and job links with titles.
C2_Witness ==
    /\ pc = "returned"
    /\ FirstPageSaysNoResults
    /\ extract_jobs_from_page(soup[1], TJ_BASE) # <<>>

\* The page loop of scrape_all_jobs has run to its end without a break.
WalkedToEnd == detected >= 1 /\ page_num = total_pages + 1

\* C3: with a cap k >= 1 scrape_all_jobs requests only result pages in
\* 1..min(k, T), T the total detected on the first page, hence at most k
\* distinct pages; with k >= T or without a cap, a walk that no page ends
\* with a no-results text requests exactly the pages 1..T.
C3_PageCap ==
    crawler = "timesjobs" =>
        /\ \A i \in DOMAIN requested :
              /\ requested[i] >= 1
              /\ requested[i] <= Max(detected, 1)
        /\ (~IsNone(max_pages) /\ max_pages[1] >= 1) =>
              /\ \A i \in DOMAIN requested : requested[i] <= max_pages[1]
              /\ Cardinality(Range(requested)) <= max_pages[1]
        /\ (WalkedToEnd /\ (IsNone(max_pages) \/ max_pages[1] >= detected)) =>
              Range(requested) = 1..detected

\* A call with cap 2 on a site of 3 pages has returned records after
\* requesting the pages 1 and 2.
C3_Witness ==
    /\ pc = "returned"
    /\ max_pages = Some(2)
    /\ detected = 3
    /\ Range(requested) = {1, 2}
    /\ result # <<>>

\* C4: no two stubs collected by scrape_all_jobs have the same url.
C4_NoDuplicateUrl ==
    crawler = "timesjobs" =>
        \A i, j \in DOMAIN all_jobs : i # j => all_jobs[i].url # all_jobs[j].url

C6_UrlNonEmpty ==
    /\ \A i \in DOMAIN Stubs : Stubs[i].url # ""
    /\ \A i \in DOMAIN jobs_data : jobs_data[i].url # ""
    /\ \A i \in DOMAIN result : result[i].url # ""

\* The stubs among the first n whose processing did not raise.
Kept(n) == {i \in 1..n : i \notin failed}

\* The place in jobs_data of the record of kept stub i.
Rank(i) == Cardinality({j \in Kept(i) : TRUE})

\* C7: the detail loop of either crawler visits every stub once, in stub
\* order, whether or not an earlier one raised; the records built are those
\* of the stubs whose processing did not raise, in stub order and with the
\* stub's title and url, and they are what a completed loop returns.
C7_FaultIsolation ==
    /\ idx <= Len(Stubs)
    /\ failed \subseteq 1..idx
    /\ Len(visited) = idx
    /\ \A i \in 1..idx : visited[i] = Stubs[i].url
    /\ Len(jobs_data) = Cardinality(Kept(idx))
    /\ \A i \in Kept(idx) :
          /\ jobs_data[Rank(i)].title = Stubs[i].title
          /\ jobs_data[Rank(i)].url = Stubs[i].url
    /\ (Finished /\ event = "complete") => (idx = Len(Stubs) /\ result = jobs_data)

\* A call has returned records although a stub before the last record's
\* raised.
C7_Witness ==
    /\ pc = "returned"
    /\ result # <<>>
    /\ \E i \in failed : \E j \in Kept(Len(Stubs)) : i < j

\* C8: in scrape_all_jobs every job whose detail page was loaded has its
\* record built, with all schema keys, whatever the page lacks.
C8_MissKeepsRecord ==
    (crawler = "timesjobs" /\ pc = "tj_details" /\ idx >= 1
        /\ event \in {"job_ok", "job_extract_failed"}) =>
            /\ jobs_data # <<>>
            /\ jobs_data[Len(jobs_data)].url = all_jobs[idx].url
            /\ DOMAIN jobs_data[Len(jobs_data)] = SchemaKeys

\* C9 as stated: a call during which a page load or a detail visit failed
\* returns the empty list.
C9_FailureReturnsEmpty ==
    (pc = "returned" /\ fault \in {"first_page", "page", "detail"}) => result = <<>>

\* C9 amended: when loading the first result page fails the crawl is over
\* and returns the empty list, with nothing collected or visited; a failure
\* on a later page load or on a detail visit leaves the records built to be
\* returned.
C9_FirstLoadAborts ==
    /\ fault = "first_page" =>
          /\ Finished
          /\ result = <<>>
          /\ Stubs = <<>>
          /\ jobs_data = <<>>
          /\ visited = <<>>
    /\ (pc = "returned" /\ fault \in {"page", "detail"}) => result = jobs_data

\* A call whose first page load failed has quit the browser and returned.
C9_Witness ==
    /\ pc = "returned"
    /\ fault = "first_page"
    /\ driver = "quit"
    /\ requested = <<1>>

\* C10: no call ends by raising.
C10_NeverRaises == pc # "raised"

\* C11: a call that has opened the browser session quits it exactly once on
\* every way out (no-results return, empty stub list, completion, after a
\* skipped page or job, after the outer handler), never quits a session it
\* has not opened, and loads or reads no page after the quit.
C11_ReleasedOnce ==
    /\ [](/\ quit_calls <= 1
          /\ (driver = "none") = (pc = "call" \/ (pc = "raised" /\ event = "driver_failed"))
          /\ driver = "none" => quit_calls = 0
          /\ driver = "open" => (quit_calls = 0 /\ pc \notin {"returned", "raised"})
          /\ driver = "quit" => (quit_calls = 1 /\ pc \in {"returned", "raised"})
          /\ pc = "returned" => driver = "quit")
    /\ [][driver = "quit" =>
            /\ requested' = requested
            /\ visited' = visited
            /\ soup' = soup
            /\ detail_soup' = detail_soup]_vars

\* A call has returned records after a page of the walk was skipped, the
\* session quit once.
C11_Witness ==
    /\ pc = "returned"
    /\ "error" \in Range(page_log)
    /\ result # <<>>
    /\ quit_calls = 1
    /\ driver = "quit"

\* The page loop of scrape_all_jobs is over.
PageLoopOver ==
    /\ crawler = "timesjobs"
    /\ detected >= 1
    /\ pc \in {"tj_collected", "tj_details", "finally", "returned", "raised"}

\* C12: a page of the page loop whose loading raises adds no stub and
\* takes none away, and the loop goes on: iteration i requests page i, and
\* unless a page ends the walk with a no-results text the loop runs through
\* all planned pages however many of them raised.
C12_PageIsolation ==
    /\ [](crawler = "timesjobs" =>
            /\ Len(requested) = (IF pc \in {"call", "tj_first"} \/ driver = "none"
                                 THEN 0 ELSE Len(page_log) + 1)
            /\ \A i \in DOMAIN page_log : requested[i + 1] = i
            /\ pc = "tj_pages" =>
                  /\ page_num = Len(page_log) + 1
                  /\ page_num <= total_pages
            /\ (PageLoopOver /\ "end" \notin Range(page_log)) =>
                  Len(page_log) = total_pages)
    /\ [][(Len(page_log') > Len(page_log) /\ page_log'[Len(page_log')] = "error") =>
             all_jobs' = all_jobs]_vars

\* The detail pass has begun with stubs of a page that was read after an
\* earlier page of the loop had raised.
C12_Witness ==
    /\ pc = "tj_details"
    /\ all_jobs # <<>>
    /\ \E i \in DOMAIN page_log :
          /\ page_log[i] = "error"
          /\ i < Len(page_log)
          /\ page_log[Len(page_log)] = "ok"
          /\ \A j \in 1..i : page_log[j] = "error"

\* The last iteration of the page loop met a no-results text.
WalkEnded == page_log # <<>> /\ page_log[Len(page_log)] = "end"

\* C13: the first page of the page loop whose text holds a no-results
\* phrase ends the walk: it is the last page requested, nothing is added to
\* the stubs by it or after it, and the stubs of the pages before it all go
\* through the detail pass.
C13_EndOfResults ==
    /\ [](crawler = "timesjobs" =>
            /\ \A i \in DOMAIN page_log : page_log[i] = "end" => i = Len(page_log)
            /\ (Len(requested) >= 2 /\ ~IsNone(soup) /\ SaysNoResults[soup[1]]) =>
                  (WalkEnded /\ pc = "tj_collected")
            /\ WalkEnded =>
                  /\ pc # "tj_pages"
                  /\ \A i \in DOMAIN requested : requested[i] <= Len(page_log)
                  /\ (Finished /\ all_jobs # <<>>) => idx = Len(all_jobs))
    /\ [][(page_log' # <<>> /\ page_log'[Len(page_log')] = "end") =>
             all_jobs' = all_jobs]_vars

\* A walk planned for more pages was ended by a no-results page, and the
\* call has returned records of the pages before it.
C13_Witness ==
    /\ pc = "returned"
    /\ WalkEnded
    /\ Len(page_log) < total_pages
    /\ result # <<>>

\* C14: scrape_all_jobs requests no result page a second time.
C14_NoPageTwice ==
    crawler = "timesjobs" =>
        \A i, j \in DOMAIN requested : i # j => requested[i] # requested[j]

\* C15: whenever a crawl is about to load a further result page or to visit
\* a further detail page, a random sleep was taken since the previous load
\* or visit.
C15_AlwaysPaced ==
    /\ pc = "tj_pages" => slept
    /\ (pc \in {"tj_details", "tc_details"} /\ idx >= 1 /\ idx < Len(Stubs)) => slept

\* The query string of url holds a parameter named key.
HasParam(url, key) ==
    Contains(url, "?" \o key \o "=") \/ Contains(url, "&" \o key \o "=")

\* url is base, "?" and one or more key=value pairs joined by "&", the
\* keys not empty and nothing in the query string left unescaped.
WellFormedUrl(url, base) ==
    /\ StartsWith(url, base \o "?")
    /\ Len(url) > Len(base) + 1
    /\ \A i \in (Len(base) + 2)..Len(url) :
          LET c == SubSeq(url, i, i)
              before == SubSeq(url, i - 1, i - 1)
          IN /\ c \in SafeChars \cup {"+", "%", "=", "&"}
             /\ c \in {"=", "&"} => before \notin {"?", "&", "="} \/ (c = "&" /\ before = "=")

\* C16: both URL builders leave out the keyword and the location parameter
\* when the argument is None or empty, return a well-formed search URL, and
\* add the page parameter exactly when page > 1.
C16_AbsentFiltersOmitted ==
    ~IsNone(ret) =>
        /\ fn = "build_timesjobs_url" =>
              /\ ~Given(arg.keyword) => ~HasParam(ret[1], "keywords")
              /\ ~Given(arg.location) => ~HasParam(ret[1], "location")
              /\ HasParam(ret[1], "page") = (arg.page > 1)
              /\ WellFormedUrl(ret[1], TJ_SEARCH)
        /\ fn = "build_filter_url" =>
              /\ ~Given(arg.keyword) => ~HasParam(ret[1], "k")
              /\ ~Given(arg.location) => ~HasParam(ret[1], "l")
              /\ HasParam(ret[1], "p") = (arg.page > 1)
              /\ WellFormedUrl(ret[1], TALENT_SEARCH)

\* The stripped texts of the elements that are not empty, in order.
NonEmptyTexts(siblings) ==
    SelectSeq([i \in 1..Len(siblings) |-> Strip(siblings[i].text)], LAMBDA t : t # "")

\* extract_description_from_detail has returned.
DescriptionReturned == fn = "extract_description_from_detail" /\ ~IsNone(ret)

\* C17 as stated: on a page without an rtd-content container, a heading
\* with the text "Job Description" that has siblings with text makes the
\* result the space-joined non-empty texts of those siblings.
C17_HeadingFallback ==
    (DescriptionReturned /\ IsNone(arg.rtd)) =>
        \A i \in DOMAIN arg.headings :
            LET h == arg.headings[i]
            IN (/\ h.name \in {"h2", "h3", "h4", "h5"}
                /\ Strip(h.text) = "Job Description"
                /\ NonEmptyTexts(h.siblings) # <<>>) =>
                   /\ ret[1] = JoinWith(NonEmptyTexts(h.siblings), " ")
                   /\ ret[1] # "N/A"

\* The page has no rtd-content text and no class-matched block of more than
\* 50 characters.
NoLongContainer ==
    /\ IsNone(arg.rtd) \/ Len(Strip(arg.rtd[1])) <= MinDescLen
    /\ \A i \in DOMAIN arg.blocks : Len(Strip(arg.blocks[i])) <= MinDescLen

\* The places of the h2..h5 headings whose text holds "description" in any
\* case.
DescriptionHeadings ==
    {i \in DOMAIN arg.headings :
        /\ arg.headings[i].name \in {"h2", "h3", "h4", "h5"}
        /\ Contains(Lower(arg.headings[i].text), "description")}

\* C17 amended: when the page has no rtd-content text and no class-matched
\* block of more than 50 characters, the result is decided by the first
\* h2..h5 heading whose text holds "description": the space-joined
\* non-empty texts of its siblings, the sentinel when it has none or there
\* is no such heading; otherwise the result is the text of the container.
C17_LayeredFallback ==
    DescriptionReturned =>
        IF NoLongContainer
        THEN IF DescriptionHeadings # {}
                /\ NonEmptyTexts(arg.headings[SetMin(DescriptionHeadings)].siblings) # <<>>
             THEN ret[1] = JoinWith(NonEmptyTexts(
                                arg.headings[SetMin(DescriptionHeadings)].siblings), " ")
             ELSE ret[1] = "N/A"
        ELSE /\ Len(ret[1]) > MinDescLen
             /\ \/ ~IsNone(arg.rtd) /\ ret[1] = Strip(arg.rtd[1])
                \/ \E i \in DOMAIN arg.blocks : ret[1] = Strip(arg.blocks[i])

\* The description was taken from the siblings of a "Job Description"
\* heading on a page whose rtd-content and class-matched block are short.
C17_Witness ==
    /\ DescriptionReturned
    /\ arg.rtd = Some("Apply now")
    /\ arg.blocks = <<"short block">>
    /\ Len(arg.headings) = 1
    /\ ret[1] = "Build APIs Write tests"

\* A list handed to the merge, None read as the empty list.
ListOf(returned) == IF IsNone(returned) THEN <<>> ELSE returned[1]

\* C18: the merged list is the Talent.com list followed by the TimesJobs
\* list, None counting as empty: its length is the sum of the two, each
\* record is at its place in unchanged order, and the records of the first
\* part are tagged "Talent.com", those of the second "TimesJobs".
C18_MergeOrder ==
    (fn = "merge" /\ ~IsNone(ret)) =>
        LET t == ListOf(arg.talent_jobs)
            j == ListOf(arg.timesjobs_jobs)
            merged == ret[1]
        IN /\ Len(merged) = Len(t) + Len(j)
           /\ \A i \in 1..Len(t) :
                 merged[i] = t[i] /\ merged[i].source = "Talent.com"
           /\ \A i \in 1..Len(j) :
                 merged[Len(t) + i] = j[i] /\ merged[Len(t) + i].source = "TimesJobs"

\* Two Talent.com records and one TimesJobs record have been merged.
C18_Witness ==
    /\ fn = "merge"
    /\ ~IsNone(ret)
    /\ Len(ListOf(arg.talent_jobs)) = 2
    /\ Len(ListOf(arg.timesjobs_jobs)) = 1
    /\ Len(ret[1]) = 3

\* C19: in either crawler no result page is loaded once a detail page was
\* visited, the stub list is fixed by then, the detail pass visits the stubs
\* one after the other in list order, each once, and it is not entered
\* after a first page that says no-results.
C19_LinearOrchestration ==
    /\ [](/\ Len(visited) <= Len(Stubs)
          /\ visited # <<>> => pc \in {"tj_details", "tc_details", "finally",
                                       "returned", "raised"}
          /\ (Finished /\ event = "complete") => Len(visited) = Len(Stubs)
          /\ FirstPageSaysNoResults => (visited = <<>> /\ pc \notin {"tj_details", "tc_details"}))
    /\ [][/\ visited # <<>> => (requested' = requested /\ Stubs' = Stubs)
          /\ visited' # visited =>
                /\ Len(visited) < Len(Stubs)
                /\ Stubs' = Stubs
                /\ visited' = Append(visited, Stubs[Len(visited) + 1].url)]_vars

\* scrape_all_jobs has returned after loading three result pages and then
\* visiting each of its stubs, two or more.
C19_Witness ==
    /\ crawler = "timesjobs"
    /\ pc = "returned"
    /\ Len(page_log) >= 2
    /\ Len(all_jobs) >= 2
    /\ Len(visited) = Len(all_jobs)
    /\ failed # {}

\* extract_label_value has returned.
LabelReturned == fn = "extract_label_value" /\ ~IsNone(ret)

\* The places of the nodes whose stripped text starts with the label and a
\* colon, in any case.
LabelHits ==
    {i \in DOMAIN arg.page.nodes :
        StartsWith(Lower(Strip(arg.page.nodes[i])), Lower(arg.label_text \o ":"))}

\* What follows the label and its colon in the first such node, stripped.
FirstHitRemainder ==
    LET txt == Strip(arg.page.nodes[SetMin(LabelHits)])
    IN Strip(SubSeq(txt, Len(arg.label_text) + 2, Len(txt)))

\* The result is that remainder, "N/A" without a hit, and for the label
\* "Graduate Courses" the node taken does not start with "Post Graduate
\* Courses:".
RemainderOfFirstHit ==
    /\ ret[1] = (IF LabelHits = {} THEN "N/A" ELSE FirstHitRemainder)
    /\ (arg.label_text = "Graduate Courses" /\ LabelHits # {}) =>
          ~StartsWith(Lower(Strip(arg.page.nodes[SetMin(LabelHits)])),
                      "post graduate courses:")

\* C20 as stated: the result is the stripped remainder of the first node
\* that starts with the label and a colon, "N/A" without one, and it holds
\* the text of no other labelled field.
C20_OnlyThisLabel ==
    LabelReturned =>
        /\ RemainderOfFirstHit
        /\ \A other \in Labels \ {arg.label_text} :
              ~Contains(Lower(ret[1]), Lower(other \o ":"))

\* C20 amended: the result is the stripped remainder of the whole text of
\* the first node, in document order, that starts with the label and a
\* colon in any case, "N/A" without one; "Post Graduate Courses:" is never
\* taken for "Graduate Courses".
C20_FirstMatchRemainder == LabelReturned => RemainderOfFirstHit

\* "Graduate Courses" was looked up on a page that lists "Post Graduate
\* Courses" first, and its own value was returned.
C20_Witness ==
    /\ LabelReturned
    /\ arg.label_text = "Graduate Courses"
    /\ Len(arg.page.nodes) >= 4
    /\ arg.page.nodes[3] = "Post Graduate Courses: MCA"
    /\ ret[1] = "BCA"

\* The lines of the file parsed, none when the file is missing.
FileLines == IF IsNone(arg.file) THEN <<>> ELSE arg.file[1]

\* The places of the lines that start with "Job #".
Boundaries == {i \in DOMAIN FileLines : StartsWith(FileLines[i], "Job #")}

\* The place of the k-th of them.
NthBoundary(k) ==
    CHOOSE b \in Boundaries : Cardinality({c \in Boundaries : c < b}) = k - 1

\* The places of the lines between the k-th "Job #" line and the next one
\* (or the end of the file) that start with the label.
LabelledLines(k, label) ==
    LET last == IF k = Cardinality(Boundaries)
                THEN Len(FileLines) ELSE NthBoundary(k + 1) - 1
    IN {i \in (NthBoundary(k) + 1)..last : StartsWith(FileLines[i], label)}

\* What the k-th record holds under the key of a label: the empty string
\* when its own lines do not mention the label, else what follows the label
\* on the last of its own lines that does, stripped.
OwnValue(k, label) ==
    IF LabelledLines(k, label) = {}
    THEN ""
    ELSE LET own == LabelledLines(k, label)
             line == FileLines[CHOOSE i \in own : \A j \in own : j <= i]
         IN Strip(SubSeq(line, Len(label) + 1, Len(line)))

\* C21: parse_jobs_file returns one record per line starting with "Job #",
\* in file order; lines before the first such line are ignored; every
\* record has all schema keys, a labelled line fills only the record opened
\* by the most recent "Job #" line, and a key no line of the record
\* mentions is the empty string. While the file is read, a record already
\* completed is never changed.
C21_ParseJobsFile ==
    /\ []((fn = "parse_jobs_file" /\ ~IsNone(ret)) =>
            /\ Len(ret[1]) = Cardinality(Boundaries)
            /\ \A k \in 1..Len(ret[1]) :
                  /\ DOMAIN ret[1][k] = SchemaKeys
                  /\ ret[1][k].source = arg.source
                  /\ \A f \in Range(LabelFields) : ret[1][k][f[2]] = OwnValue(k, f[1]))
    /\ []((fn = "parse_jobs_file" /\ \A i \in 1..line_no : i \notin Boundaries) =>
            (jobs = <<>> /\ IsNone(current)))
    /\ [][fn = "parse_jobs_file" =>
            /\ Len(jobs') >= Len(jobs)
            /\ \A k \in 1..Len(jobs) : jobs'[k] = jobs[k]]_vars

\* A file with a labelled line before the first "Job #" line and two
\* records, the second of which has a title line: the first record has no
\* title, the second has its own.
C21_Witness ==
    /\ fn = "parse_jobs_file"
    /\ ~IsNone(ret)
    /\ Len(FileLines) = 4
    /\ FileLines[1] = "Title: Dev"
    /\ Boundaries = {2, 3}
    /\ Len(ret[1]) = 2
    /\ ret[1][1].title = ""
    /\ ret[1][2].title = "Senior Dev"

\* The detail pass has started.
DetailPassStarted == visited # <<>>

\* C22: in a run of scrape_all_jobs every result-page URL is the one built
\* from the keyword, location and experience of the call and the number of
\* the page requested, so that the URLs are the URL of page 1 followed, for
\* a later page, by its page parameter; the local variable experience keeps
\* the caller's value until the detail pass, and once the detail pass has
\* started no URL is built.
C22_OriginalFilter ==
    /\ [](crawler = "timesjobs" =>
            /\ Len(page_urls) = Len(requested)
            /\ \A i \in DOMAIN page_urls :
                  page_urls[i] = IF requested[i] = 1
                                 THEN page_urls[1]
                                 ELSE page_urls[1] \o "&page=" \o IntToStr(requested[i])
            /\ locals.keyword = called_with.keyword
            /\ locals.location = called_with.location
            /\ locals.experience # called_with.experience => DetailPassStarted)
    /\ [][crawler = "timesjobs" =>
            \/ page_urls' = page_urls
            \/ /\ ~DetailPassStarted
               /\ ~DetailPassStarted'
               /\ page_urls' =
                     Append(page_urls,
                            TimesJobsUrl(called_with.keyword, called_with.location,
                                         called_with.experience,
                                         requested'[Len(requested')]))]_vars

\* A call with an experience filter of 2 years has returned after building
\* three URLs that carry experience=2, and its local variable experience
\* now holds text read from a detail page.
C22_Witness ==
    /\ crawler = "timesjobs"
    /\ pc = "returned"
    /\ called_with.experience = PyInt(2)
    /\ locals.experience[1] = "str"
    /\ Len(page_urls) = 3
    /\ \A i \in DOMAIN page_urls : HasParam(page_urls[i], "experience")
    /\ page_urls[3] # page_urls[1]
    /\ jobs_data # <<>>

====
